---- MODULE Spec2Model ----
(***************************************************************************)
(* dm-ref-scraper (src/src/main.rs): one HTML reference blob is split on   *)
(* "<hr>" into fragments, pass 1 registers every fragment under the name   *)
(* of its anchor, pass 2 renders every registered fragment into a Page,    *)
(* and a last loop writes one Markdown file per Page.                      *)
(*                                                                         *)
(* A Rust String is modelled as the sequence of its UTF-8 bytes, each byte *)
(* a one-character TLA+ string (bytes outside printable ASCII are the      *)
(* tokens of ByteChar).  The DOM that the scraper crate builds is modelled *)
(* as the record the selectors read from it.                               *)
(***************************************************************************)
EXTENDS Integers, Sequences, FiniteSets, TLC

(***************************************************************************)
(* Strings                                                                 *)
(***************************************************************************)
RECURSIVE Concat(_)
Concat(ss) == IF ss = <<>> THEN <<>> ELSE Head(ss) \o Concat(Tail(ss))

RECURSIVE Join(_, _)
Join(ss, sep) ==
  IF ss = <<>> THEN <<>>
  ELSE IF Len(ss) = 1 THEN ss[1]
  ELSE ss[1] \o sep \o Join(Tail(ss), sep)

DropFirst(s, n) == SubSeq(s, n + 1, Len(s))

StartsWith(s, p) == Len(p) <= Len(s) /\ SubSeq(s, 1, Len(p)) = p

EndsWith(s, p) == Len(p) <= Len(s) /\ SubSeq(s, Len(s) - Len(p) + 1, Len(s)) = p

\* str::find: the 0-based offset of the first occurrence of p in s, or -1
\* (None).
Find(s, p) ==
  LET hits == { k \in 0..(Len(s) - Len(p)) : SubSeq(s, k + 1, k + Len(p)) = p }
  IN IF hits = {} THEN -1 ELSE CHOOSE k \in hits : \A j \in hits : k <= j

Contains(s, p) == Find(s, p) >= 0

\* str::replace: every non-overlapping occurrence of pat, found left to
\* right, becomes rep; pat is never empty here.
RECURSIVE Replace(_, _, _)
Replace(s, pat, rep) ==
  IF Len(s) < Len(pat) THEN s
  ELSE IF StartsWith(s, pat) THEN rep \o Replace(DropFirst(s, Len(pat)), pat, rep)
  ELSE <<Head(s)>> \o Replace(Tail(s), pat, rep)

Least(S) == CHOOSE m \in S : \A j \in S : m <= j

Greatest(S) == CHOOSE m \in S : \A j \in S : j <= m

Positions(s, c) == { k \in 1..Len(s) : s[k] = c }

\* The compile-time literals of the source, spelled byte by byte.
W_dot == <<"d","o","t">>
W_greater == <<"g","r","e","a","t","e","r">>
W_less == <<"l","e","s","s">>
W_modulo == <<"m","o","d","u","l","o">>
W_query == <<"q","u","e","r","y">>
W_amp == <<"a","m","p">>
W_tilde == <<"t","i","l","d","e">>
W_vert == <<"v","e","r","t">>
W_exclaim == <<"e","x","c","l","a","i","m">>
W_colon == <<"c","o","l","o","n">>
W_asterisk == <<"a","s","t","e","r","i","s","k">>
W_caret == <<"c","a","r","e","t">>
W_equals == <<"e","q","u","a","l","s">>
W_plus == <<"p","l","u","s">>
W_leftparen == <<"l","e","f","t","p","a","r","e","n">>
W_rightparen == <<"r","i","g","h","t","p","a","r","e","n">>
W_leftsquare == <<"l","e","f","t","s","q","u","a","r","e">>
W_rightsquare == <<"r","i","g","h","t","s","q","u","a","r","e">>
W_slash == <<"/","s","l","a","s","h">>
W_index == <<"/","i","n","d","e","x">>
W_index_page == <<"/","i","n","d","e","x","_","p","a","g","e">>
W_operator == <<"o","p","e","r","a","t","o","r">>
W_minus == <<"m","i","n","u","s">>
W_http == <<"h","t","t","p">>

(***************************************************************************)
(* Slug sanitizer: make_ref_web_safe                                       *)
(***************************************************************************)
TEXT_REPLACEMENTS ==
  << <<".", W_dot>>, <<"<", W_greater>>, <<">", W_less>>, <<"%", W_modulo>>,
     <<"?", W_query>>, <<"&", W_amp>>, <<"~", W_tilde>>, <<"|", W_vert>>,
     <<"!", W_exclaim>>, <<":", W_colon>>, <<"*", W_asterisk>>,
     <<"^", W_caret>>, <<"=", W_equals>>, <<"+", W_plus>>,
     <<"(", W_leftparen>>, <<")", W_rightparen>>, <<"[", W_leftsquare>>,
     <<"]", W_rightsquare>> >>

\* The bytes of a String, indexed by byte value + 1.
ByteChar ==
  << "\\x00", "\\x01", "\\x02", "\\x03", "\\x04", "\\x05", "\\x06", "\\x07",
     "\\x08", "\t", "\n", "\\x0B", "\\x0C", "\r", "\\x0E", "\\x0F",
     "\\x10", "\\x11", "\\x12", "\\x13", "\\x14", "\\x15", "\\x16", "\\x17",
     "\\x18", "\\x19", "\\x1A", "\\x1B", "\\x1C", "\\x1D", "\\x1E", "\\x1F",
     " ", "!", "\"", "#", "$", "%", "&", "'",
     "(", ")", "*", "+", ",", "-", ".", "/",
     "0", "1", "2", "3", "4", "5", "6", "7",
     "8", "9", ":", ";", "<", "=", ">", "?",
     "@", "A", "B", "C", "D", "E", "F", "G",
     "H", "I", "J", "K", "L", "M", "N", "O",
     "P", "Q", "R", "S", "T", "U", "V", "W",
     "X", "Y", "Z", "[", "\\", "]", "^", "_",
     "\\x60", "a", "b", "c", "d", "e", "f", "g",
     "h", "i", "j", "k", "l", "m", "n", "o",
     "p", "q", "r", "s", "t", "u", "v", "w",
     "x", "y", "z", "{", "|", "}", "~", "\\x7F",
     "\\x80", "\\x81", "\\x82", "\\x83", "\\x84", "\\x85", "\\x86", "\\x87",
     "\\x88", "\\x89", "\\x8A", "\\x8B", "\\x8C", "\\x8D", "\\x8E", "\\x8F",
     "\\x90", "\\x91", "\\x92", "\\x93", "\\x94", "\\x95", "\\x96", "\\x97",
     "\\x98", "\\x99", "\\x9A", "\\x9B", "\\x9C", "\\x9D", "\\x9E", "\\x9F",
     "\\xA0", "\\xA1", "\\xA2", "\\xA3", "\\xA4", "\\xA5", "\\xA6", "\\xA7",
     "\\xA8", "\\xA9", "\\xAA", "\\xAB", "\\xAC", "\\xAD", "\\xAE", "\\xAF",
     "\\xB0", "\\xB1", "\\xB2", "\\xB3", "\\xB4", "\\xB5", "\\xB6", "\\xB7",
     "\\xB8", "\\xB9", "\\xBA", "\\xBB", "\\xBC", "\\xBD", "\\xBE", "\\xBF",
     "\\xC0", "\\xC1", "\\xC2", "\\xC3", "\\xC4", "\\xC5", "\\xC6", "\\xC7",
     "\\xC8", "\\xC9", "\\xCA", "\\xCB", "\\xCC", "\\xCD", "\\xCE", "\\xCF",
     "\\xD0", "\\xD1", "\\xD2", "\\xD3", "\\xD4", "\\xD5", "\\xD6", "\\xD7",
     "\\xD8", "\\xD9", "\\xDA", "\\xDB", "\\xDC", "\\xDD", "\\xDE", "\\xDF",
     "\\xE0", "\\xE1", "\\xE2", "\\xE3", "\\xE4", "\\xE5", "\\xE6", "\\xE7",
     "\\xE8", "\\xE9", "\\xEA", "\\xEB", "\\xEC", "\\xED", "\\xEE", "\\xEF",
     "\\xF0", "\\xF1", "\\xF2", "\\xF3", "\\xF4", "\\xF5", "\\xF6", "\\xF7",
     "\\xF8", "\\xF9", "\\xFA", "\\xFB", "\\xFC", "\\xFD", "\\xFE", "\\xFF" >>

HexDigits == <<"0","1","2","3","4","5","6","7","8","9">>
HexUpper == <<"A","B","C","D","E","F">>
HexLower == <<"a","b","c","d","e","f">>

IsHex(c) ==
  \/ \E k \in 1..Len(HexDigits) : HexDigits[k] = c
  \/ \E k \in 1..Len(HexUpper) : HexUpper[k] = c
  \/ \E k \in 1..Len(HexLower) : HexLower[k] = c

HexVal(c) ==
  IF \E k \in 1..Len(HexDigits) : HexDigits[k] = c
  THEN (CHOOSE k \in 1..Len(HexDigits) : HexDigits[k] = c) - 1
  ELSE IF \E k \in 1..Len(HexUpper) : HexUpper[k] = c
  THEN (CHOOSE k \in 1..Len(HexUpper) : HexUpper[k] = c) + Len(HexDigits) - 1
  ELSE (CHOOSE k \in 1..Len(HexLower) : HexLower[k] = c) + Len(HexDigits) - 1

ByteOf(c) == (CHOOSE k \in 1..Len(ByteChar) : ByteChar[k] = c) - 1

\* The bytes 0x80..0xFF.
HighBytes == { ByteChar[k] : k \in 129..256 }

\* percent_decode_str: "%XY" with two hex digits becomes the byte XY; a '%'
\* not followed by two hex digits stays as it is.
RECURSIVE percent_decode(_)
percent_decode(s) ==
  IF s = <<>> THEN <<>>
  ELSE IF Head(s) = "%" /\ Len(s) >= 3 /\ IsHex(s[2]) /\ IsHex(s[3])
  THEN <<ByteChar[HexVal(s[2]) * Len(HexDigits \o HexUpper) + HexVal(s[3]) + 1]>>
         \o percent_decode(DropFirst(s, 3))
  ELSE <<Head(s)>> \o percent_decode(Tail(s))

\* decode_utf8: the byte sequence is well-formed UTF-8 (RFC 3629 table).
InB(s, k, lo, hi) == k <= Len(s) /\ ByteOf(s[k]) >= lo /\ ByteOf(s[k]) <= hi

RECURSIVE ValidUtf8(_)
ValidUtf8(s) ==
  IF s = <<>> THEN TRUE
  ELSE IF Head(s) \notin HighBytes THEN ValidUtf8(Tail(s))
  ELSE LET b == ByteOf(Head(s)) IN
    IF b >= 194 /\ b <= 223
      THEN InB(s, 2, 128, 191) /\ ValidUtf8(DropFirst(s, 2))
    ELSE IF b = 224
      THEN InB(s, 2, 160, 191) /\ InB(s, 3, 128, 191) /\ ValidUtf8(DropFirst(s, 3))
    ELSE IF (b >= 225 /\ b <= 236) \/ b = 238 \/ b = 239
      THEN InB(s, 2, 128, 191) /\ InB(s, 3, 128, 191) /\ ValidUtf8(DropFirst(s, 3))
    ELSE IF b = 237
      THEN InB(s, 2, 128, 159) /\ InB(s, 3, 128, 191) /\ ValidUtf8(DropFirst(s, 3))
    ELSE IF b = 240
      THEN InB(s, 2, 144, 191) /\ InB(s, 3, 128, 191) /\ InB(s, 4, 128, 191)
           /\ ValidUtf8(DropFirst(s, 4))
    ELSE IF b >= 241 /\ b <= 243
      THEN InB(s, 2, 128, 191) /\ InB(s, 3, 128, 191) /\ InB(s, 4, 128, 191)
           /\ ValidUtf8(DropFirst(s, 4))
    ELSE IF b = 244
      THEN InB(s, 2, 128, 143) /\ InB(s, 3, 128, 191) /\ InB(s, 4, 128, 191)
           /\ ValidUtf8(DropFirst(s, 4))
    ELSE FALSE

\* The value of a call that panicked (Result::unwrap / Option::unwrap on a
\* failure); no String equals it.
Panicked == <<"!panic">>

RECURSIVE ApplyReplacements(_, _)
ApplyReplacements(path, k) ==
  IF k > Len(TEXT_REPLACEMENTS) THEN path
  ELSE ApplyReplacements(
         Replace(path, <<TEXT_REPLACEMENTS[k][1]>>, TEXT_REPLACEMENTS[k][2]), k + 1)

\* CLEAN_REGEX "[{}]" replaced by "".
StripBraces(path) == SelectSeq(path, LAMBDA c : c # "{" /\ c # "}")

\* Line 520 with the separator kept after the word.
replace_double_slash_keeping_separator(path) ==
  Replace(path, <<"/", "/">>, W_slash \o <<"/">>)

\* Line 520
replace_double_slash(path) == Replace(path, <<"/", "/">>, W_slash)

make_ref_web_safe(dirty_path) ==
  LET decoded == percent_decode(dirty_path) IN
  IF ~ValidUtf8(decoded) THEN Panicked
  ELSE
    LET p1 == ApplyReplacements(decoded, 1)
        p2 == replace_double_slash(p1)
        p3 == Replace(p2, W_index, W_index_page)
        p4 == IF Contains(p3, W_operator) THEN Replace(p3, <<"-">>, W_minus) ELSE p3
    IN StripBraces(p4)

(***************************************************************************)
(* Text escaper: escape_dollars_outside_code                               *)
(***************************************************************************)
\* The backtick byte 0x60.
Backtick == ByteChar[97]

RECURSIVE LeadingBackticks(_)
LeadingBackticks(s) ==
  IF s # <<>> /\ Head(s) = Backtick THEN 1 + LeadingBackticks(Tail(s)) ELSE 0

RepeatBacktick(count) == [k \in 1..count |-> Backtick]

\* One turn of the while loop of find_closing_backticks, from search_start.
RECURSIVE find_closing_from(_, _, _)
find_closing_from(s, count, search_start) ==
  LET pos == Find(DropFirst(s, search_start), RepeatBacktick(count)) IN
  IF pos < 0 THEN -1
  ELSE
    LET absolute_pos == search_start + pos
        before_ok == absolute_pos = 0 \/ s[absolute_pos] # Backtick
        after_end == absolute_pos + count
        after_ok == after_end >= Len(s) \/ s[after_end + 1] # Backtick
    IN IF before_ok /\ after_ok THEN absolute_pos
       ELSE find_closing_from(s, count, absolute_pos + 1)

\* The closing run taken to be the first place the pattern occurs, whatever
\* stands next to it.
find_closing_backticks_any_run(s, count) == Find(s, RepeatBacktick(count))

\* The 0-based offset of the closing run, or -1 for None.
find_closing_backticks(s, count) == find_closing_from(s, count, 0)

RECURSIVE escape_dollars_outside_code(_)
escape_dollars_outside_code(remaining) ==
  IF remaining = <<>> THEN <<>>
  ELSE IF Head(remaining) = Backtick THEN
    LET backtick_count == LeadingBackticks(remaining)
        opener == SubSeq(remaining, 1, backtick_count)
        rest == DropFirst(remaining, backtick_count)
        close_pos == find_closing_backticks(rest, backtick_count)
    IN IF close_pos >= 0
       THEN opener \o SubSeq(rest, 1, close_pos + backtick_count)
              \o escape_dollars_outside_code(DropFirst(rest, close_pos + backtick_count))
       ELSE opener \o escape_dollars_outside_code(rest)
  ELSE IF Head(remaining) = "$" THEN
    <<"\\", "$">> \o escape_dollars_outside_code(Tail(remaining))
  ELSE <<Head(remaining)>> \o escape_dollars_outside_code(Tail(remaining))

\* remove_html_encode: "&amp;", "&lt;", "&gt;" in this order.
remove_html_encode(dirty) ==
  Replace(Replace(Replace(dirty, <<"&","a","m","p",";">>, <<"&">>),
                  <<"&","l","t",";">>, <<"<">>),
          <<"&","g","t",";">>, <<">">>)

\* ORPHAN_TT_REGEX "(?i)tt>" replaced by "".
RECURSIVE strip_orphan_tt(_)
strip_orphan_tt(s) ==
  IF Len(s) < 3 THEN s
  ELSE IF s[1] \in {"t", "T"} /\ s[2] \in {"t", "T"} /\ s[3] = ">"
  THEN strip_orphan_tt(DropFirst(s, 3))
  ELSE <<Head(s)>> \o strip_orphan_tt(Tail(s))

(***************************************************************************)
(* The DOM of a fragment, as the selectors of the source read it: the      *)
(* elements in document order.  Inline content (the inner HTML of a dd, p, *)
(* h3 or li) is a sequence of items, each plain text or an anchor with an  *)
(* href.  Of a dl, dt is the inner HTML of its first dt (None without one) *)
(* and dt_b the inner HTML of the first b inside that dt.                  *)
(***************************************************************************)
\* Option::None for a String-valued option; no String equals it.
None == <<"!none">>

Blank ==
  [tag |-> "", name |-> None, href |-> None, class |-> {}, dt |-> None,
   dt_b |-> None, dds |-> <<>>, inner |-> <<>>, html |-> <<>>, byondver |-> None]

\* Option::None for an element.
NoElement == [Blank EXCEPT !.tag = "!none"]

Text(t) == [href |-> None, text |-> t]
Link(h, t) == [href |-> h, text |-> t]

\* Selector::parse("a"), .next(): the first anchor of the document, whether
\* it stands alone or inside inline content.
RECURSIVE FirstLink(_)
FirstLink(items) ==
  IF items = <<>> THEN None
  ELSE IF Head(items).href # None THEN Head(items).href
  ELSE FirstLink(Tail(items))

RECURSIVE FirstLinkOfAll(_)
FirstLinkOfAll(inners) ==
  IF inners = <<>> THEN None
  ELSE IF FirstLink(Head(inners)) # None THEN FirstLink(Head(inners))
  ELSE FirstLinkOfAll(Tail(inners))

NodeInners(node) == IF node.tag = "dl" THEN node.dds ELSE <<node.inner>>

RECURSIVE select_first_a(_)
select_first_a(document) ==
  IF document = <<>> THEN NoElement
  ELSE IF Head(document).tag = "a" THEN Head(document)
  ELSE IF FirstLinkOfAll(NodeInners(Head(document))) # None
  THEN [Blank EXCEPT !.tag = "a",
          !.href = FirstLinkOfAll(NodeInners(Head(document)))]
  ELSE select_first_a(Tail(document))

select(document, tags) == SelectSeq(document, LAMBDA n : n.tag \in tags)

PAGE_SELECTOR == {"a"}
TITLE_SELECTOR == {"h2"}
TEXT_SELECTOR == {"p", "h3", "xmp", "pre", "ul"}
DL_SELECTOR == {"dl"}

\* Path::parent: the path without its last component, None when there is
\* no component to drop.  Components are separated by runs of '/'.
RECURSIVE TrimSlashes(_)
TrimSlashes(p) ==
  IF Len(p) > 1 /\ p[Len(p)] = "/" THEN TrimSlashes(SubSeq(p, 1, Len(p) - 1))
  ELSE p

RECURSIVE DropLastComponent(_)
DropLastComponent(p) ==
  IF p = <<>> \/ p[Len(p)] = "/" THEN p
  ELSE DropLastComponent(SubSeq(p, 1, Len(p) - 1))

path_parent(page_path) ==
  LET p == TrimSlashes(page_path) IN
  IF p = <<>> \/ p = <<"/">> THEN None
  ELSE TrimSlashes(DropLastComponent(p))

(***************************************************************************)
(* Cross-reference resolver: parse_html_to_markdown                        *)
(***************************************************************************)
RECURSIVE SplitOn(_, _)
SplitOn(s, c) ==
  LET k == Find(s, <<c>>) IN
  IF k < 0 THEN <<s>>
  ELSE <<SubSeq(s, 1, k)>> \o SplitOn(DropFirst(s, k + 1), c)

\* CODE_PERCENT_REGEX "`(.*)(%%)(.*)`" on one line: both groups are
\* greedy, so the match runs from the first backtick to the last one and
\* the "%%" it rewrites is the last one between them.
PercentInLine(line) ==
  LET ticks == Positions(line, Backtick)
      hits == IF Cardinality(ticks) < 2 THEN {}
              ELSE { q \in 1..(Len(line) - 1) :
                       /\ line[q] = "%" /\ line[q + 1] = "%"
                       /\ q > Least(ticks) /\ q + 1 < Greatest(ticks) }
  IN IF hits = {} THEN line
     ELSE SubSeq(line, 1, Greatest(hits) - 1) \o <<"%","2","5","%","2","5">>
            \o DropFirst(line, Greatest(hits) + 1)

clean_code_percentage(input) ==
  LET lines == SplitOn(input, "\n") IN
  Join([k \in 1..Len(lines) |-> PercentInLine(lines[k])], <<"\n">>)

\* LINK_BACKSLASH_REGEX "(`.*\.*`)": on each line that holds two backticks,
\* the text from the first to the last of them.
RECURSIVE StripBackslashes(_, _)
StripBackslashes(cleaning, lines) ==
  IF lines = <<>> THEN cleaning
  ELSE
    LET ticks == Positions(Head(lines), Backtick) IN
    IF Cardinality(ticks) < 2 THEN StripBackslashes(cleaning, Tail(lines))
    ELSE
      LET inner_string == SubSeq(Head(lines), Least(ticks), Greatest(ticks)) IN
      StripBackslashes(
        Replace(cleaning, inner_string, SelectSeq(inner_string, LAMBDA c : c # "\\")),
        Tail(lines))

clean_code_backslashes(input) == StripBackslashes(input, SplitOn(input, "\n"))

\* The destination cut at its first '#'.
final_destination_cut_at_hash(dest) ==
  IF Contains(dest, <<"#">>) THEN SubSeq(dest, 1, Find(dest, <<"#">>)) ELSE dest

\* dest.replace('#', "")
final_destination(dest) == Replace(dest, <<"#">>, <<>>)

W_broken == <<"*","*","B","R","O","K","E","N"," ","L","I","N","K",":"," ">>

\* Lines 413-431: the markup that replaces one a[href] element.
\* The two format! calls, given what make_ref_web_safe returned; its panic
\* unwinds.
formatted(link, dest, safe, all_pages) ==
  IF safe = Panicked THEN Panicked
  ELSE IF dest \notin DOMAIN all_pages /\ ~Contains(dest, W_http)
  THEN W_broken \o safe \o <<"*","*">>
  ELSE <<"[">> \o link.text \o <<"]","(">> \o safe \o <<")">>

link_markup(link, all_pages) ==
  formatted(link, final_destination(link.href),
            make_ref_web_safe(final_destination(link.href)), all_pages)

\* Lines 407-409 on a piece of text: '\n' becomes ' ' and "tt>" remnants
\* go; CODE_REGEX rewrites <tt> and <code> tags, which inline text does not
\* hold.
flatten(t) == strip_orphan_tt(Replace(t, <<"\n">>, <<" ">>))

AnyPanicked(ss) == \E k \in 1..Len(ss) : ss[k] = Panicked

\* The pieces put together, unless producing one of them panicked.
ConcatUnlessPanicked(ss) == IF AnyPanicked(ss) THEN Panicked ELSE Concat(ss)

\* Lines 411-433: html once every a[href] has been replaced by its markup.
rewrite_links(html, all_pages) ==
  ConcatUnlessPanicked(
    [k \in 1..Len(html) |->
       IF html[k].href = None THEN flatten(html[k].text)
       ELSE link_markup([href |-> html[k].href, text |-> flatten(html[k].text)],
                        all_pages)])

\* html2md::parse_html, an external engine: on text that holds no tag its
\* output is taken to be the text.  NAIVE_STRIPPER_REGEX (line 437) finds
\* no "<a name" in it.
html2md_parse_html(html) == html

\* Lines 435-439, which a panic of the link loop does not reach.
converted(rewritten) ==
  IF rewritten = Panicked THEN Panicked
  ELSE clean_code_backslashes(clean_code_percentage(html2md_parse_html(rewritten)))

parse_html_to_markdown(html, all_pages) == converted(rewrite_links(html, all_pages))

(***************************************************************************)
(* Page renderer: create_page_from_html                                    *)
(***************************************************************************)
W_sp_proc == <<" ","p","r","o","c">>
W_sp_var == <<" ","v","a","r">>
W_procs == <<"p","r","o","c","s">>
W_vars_paren == <<"v","a","r","s"," ","(">>
W_slash_var == <<"/","v","a","r">>
W_slash_proc == <<"/","p","r","o","c">>
W_See_also == <<"S","e","e"," ","a","l","s","o">>
W_Args == <<"A","r","g","s">>
W_Format == <<"F","o","r","m","a","t">>
W_When == <<"W","h","e","n">>
W_Note == <<"N","o","t","e",":">>
W_Example == <<"E","x","a","m","p","l","e",":">>
W_h3 == <<"#","#","#"," ">>
W_h2 == <<"#","#"," ">>
W_fence == <<Backtick, Backtick, Backtick>>
W_dream_maker == <<"d","r","e","a","m","-","m","a","k","e","r">>

FindLast(s, p) ==
  LET hits == { k \in 0..(Len(s) - Len(p)) : SubSeq(s, k + 1, k + Len(p)) = p }
  IN IF hits = {} THEN -1 ELSE Greatest(hits)

\* PROC_VAR_NAME_REGEX "(.*) (?:proc)|(?:var)" is the alternation of
\* "(.*) proc" and "var": group 1 takes part only in the first branch, which
\* matches from offset 0 whenever the title holds " proc", greedily up to
\* the last " proc".  Titles are one line.
proc_var_name(title) ==
  IF Contains(title, W_sp_proc) THEN SubSeq(title, 1, FindLast(title, W_sp_proc))
  ELSE None

\* PROC_VAR_REGEX "(?:procs)|(?:vars) \((.*)\)" is the alternation of
\* "procs" and "vars \((.*)\)": the leftmost match wins, and group 1 takes
\* part only when that match is the second branch.
proc_var_operator(title) ==
  LET p1 == Find(title, W_procs)
      p2 == Find(title, W_vars_paren)
      close == FindLast(title, <<")">>)
  IN IF p2 >= 0 /\ close >= p2 + Len(W_vars_paren) /\ (p1 < 0 \/ p2 < p1)
     THEN SubSeq(title, p2 + Len(W_vars_paren) + 1, close)
     ELSE None

title_tags(title) ==
  (IF Contains(title, W_sp_proc) THEN <<"proc">> ELSE <<>>)
    \o (IF Contains(title, W_sp_var) THEN <<"var">> ELSE <<>>)

\* Lines 225-263: one header per dl that has a dt.
data_title(dl) ==
  LET data_title_element == IF dl.dt_b # None THEN dl.dt_b ELSE dl.dt
  IN Replace(data_title_element, <<":">>, <<>>)

header_of(dl, all_pages) ==
  LET rendered == [k \in 1..Len(dl.dds) |-> parse_html_to_markdown(dl.dds[k], all_pages)]
  IN [term |-> data_title(dl),
      entries |-> SelectSeq(rendered, LAMBDA s : s # <<>>),
      code |-> "codedd" \in dl.class \/ data_title(dl) = W_Format]

page_headers(document, all_pages) ==
  LET dls == SelectSeq(select(document, DL_SELECTOR), LAMBDA n : n.dt # None)
  IN [k \in 1..Len(dls) |-> header_of(dls[k], all_pages)]

event_tags(headers) ==
  Concat([k \in 1..Len(headers) |->
            IF Contains(headers[k].term, W_When) THEN <<"event">> ELSE <<>>])

\* Lines 275-288: one entry of a header with several entries.
entry_line(part, string) ==
  (IF part.term = W_Args /\ Contains(string, <<":">>)
   THEN LET split == SplitOn(string, ":") IN
        <<"-", " ", Backtick>> \o split[1] \o <<Backtick, ":">> \o split[2]
   ELSE IF part.code /\ ~StartsWith(string, <<"[">>)
   THEN <<"-", " ", Backtick>> \o string \o <<Backtick>>
   ELSE <<"-", " ">> \o string)
  \o <<"\n">>

\* Lines 269-296: the Markdown of one header.
header_markdown(part) ==
  W_h3 \o part.term \o
  (IF Len(part.entries) > 1
   THEN <<"\n">> \o Concat([k \in 1..Len(part.entries) |-> entry_line(part, part.entries[k])])
   ELSE IF part.entries # <<>>
   THEN IF part.code
        THEN <<"\n", ">", " ", Backtick>> \o part.entries[1] \o <<Backtick>>
        ELSE <<"\n", ">", " ">> \o part.entries[1]
   ELSE <<>>)

\* Line 298: the headers written after the body.
is_write_after(part) ==
  \/ part.term = W_See_also
  \/ Contains(part.term, W_slash_var)
  \/ Contains(part.term, W_slash_proc)

header_block(part) == clean_code_backslashes(clean_code_percentage(header_markdown(part)))

\* Lines 268-303: the loop over the headers fills text and write_after.
RECURSIVE place_headers(_, _, _)
place_headers(headers, text, write_after) ==
  IF headers = <<>> THEN [text |-> text, write_after |-> write_after]
  ELSE IF is_write_after(Head(headers))
  THEN place_headers(Tail(headers), text, Append(write_after, header_block(Head(headers))))
  ELSE place_headers(Tail(headers), Append(text, header_block(Head(headers))), write_after)

item_html(item) ==
  IF item.href = None THEN item.text
  ELSE <<"<","a"," ","h","r","e","f","=","\"">> \o item.href \o <<"\"",">">>
         \o item.text \o <<"<","/","a",">">>

inner_html(inner) == Concat([k \in 1..Len(inner) |-> item_html(inner[k])])

\* inner_html().replace("Note:", "")
without_note(inner) ==
  [k \in 1..Len(inner) |->
     [href |-> IF inner[k].href = None THEN None
               ELSE Replace(inner[k].href, W_Note, <<>>),
      text |-> Replace(inner[k].text, W_Note, <<>>)]]

IsSpace(c) == c \in {" ", "\n", "\t", "\r"}

RECURSIVE TrimStart(_)
TrimStart(s) == IF s # <<>> /\ IsSpace(Head(s)) THEN TrimStart(Tail(s)) ELSE s

RECURSIVE TrimEnd(_)
TrimEnd(s) ==
  IF s # <<>> /\ IsSpace(s[Len(s)]) THEN TrimEnd(SubSeq(s, 1, Len(s) - 1)) ELSE s

trim(s) == TrimEnd(TrimStart(s))

\* html2md::parse_html on a ul element of one item: the item as a "* "
\* bullet; not reached when rewriting the links of the item panicked.
html2md_list(s) == IF s = Panicked THEN Panicked ELSE <<"*", " ">> \o s

\* text.push(format!(...)) of a prefix and the Markdown of an element.
pushed(prefix, md) == IF md = Panicked THEN <<Panicked>> ELSE <<prefix \o md>>

\* Lines 306-368: the blocks one text element pushes (none or one).
text_block(text_part, target_name, all_pages) ==
  IF text_part.tag = "p" THEN
    IF "note" \in text_part.class \/ StartsWith(inner_html(text_part.inner), W_Note)
    THEN
      LET note_type ==
            IF "security" \in text_part.class THEN <<"d","a","n","g","e","r">>
            ELSE IF "deprecated" \in text_part.class
            THEN <<"d","e","p","r","e","c","a","t","e","d">>
            ELSE <<"n","o","t","e">>
      IN pushed(<<">"," ","[","!">> \o note_type \o <<"]","\n",">"," ">>,
                parse_html_to_markdown(without_note(text_part.inner), all_pages))
    ELSE <<parse_html_to_markdown(text_part.inner, all_pages)>>
  ELSE IF text_part.tag = "h3" THEN
    IF inner_html(text_part.inner) = W_Example THEN <<>>
    ELSE pushed(W_h2, parse_html_to_markdown(text_part.inner, all_pages))
  ELSE IF text_part.tag = "xmp" THEN
    IF target_name # None
    THEN << W_fence \o W_dream_maker \o <<" ", "/">> \o target_name \o <<"/", "\n">>
              \o trim(text_part.html) \o <<"\n">> \o W_fence >>
    ELSE << W_fence \o W_dream_maker \o <<"\n">> \o trim(text_part.html)
              \o <<"\n">> \o W_fence >>
  ELSE IF text_part.tag = "pre" THEN
    << W_fence \o <<"\n">> \o trim(text_part.html) \o <<"\n">> \o W_fence >>
  ELSE IF text_part.tag = "ul" THEN
    pushed(<<>>, html2md_list(parse_html_to_markdown(text_part.inner, all_pages)))
  ELSE <<>>

text_blocks(document, target_name, all_pages) ==
  LET parts == select(document, TEXT_SELECTOR) IN
  Concat([k \in 1..Len(parts) |-> text_block(parts[k], target_name, all_pages)])

\* write_after appended before the text elements are walked.
extend_before_text_elements(placed, blocks) ==
  placed.text \o placed.write_after \o blocks

page_text_headers_first(document, target_name, all_pages) ==
  extend_before_text_elements(place_headers(page_headers(document, all_pages), <<>>, <<>>),
                              text_blocks(document, target_name, all_pages))

\* Lines 265-371: the vector text when it is joined into the body.
extend_after_text_elements(placed, blocks) ==
  placed.text \o blocks \o placed.write_after

page_text(document, target_name, all_pages) ==
  extend_after_text_elements(place_headers(page_headers(document, all_pages), <<>>, <<>>),
                             text_blocks(document, target_name, all_pages))

\* Lines 377-392
parsed_metadata(headers) ==
  LET kept == SelectSeq(headers, LAMBDA h : h.term # W_See_also) IN
  [k \in 1..Len(kept) |->
     << kept[k].term,
        [j \in 1..Len(kept[k].entries) |->
           Replace(SelectSeq(kept[k].entries[j], LAMBDA c : c # "\\"),
                   <<"%","%">>, <<"\\","%","\\","%">>)] >>]

\* A rendering panics when make_ref_web_safe does, on a dd of a header or
\* on a text element.
RenderingPanics(headers, text) ==
  \/ AnyPanicked(text)
  \/ \E k \in 1..Len(headers) : AnyPanicked(headers[k].entries)

\* Lines 373-403: the Page built of the title element, the headers and the
\* vector text.
page_from(title_element, headers, text) ==
  [title |-> remove_html_encode(title_element.html),
   body |-> Join(text, <<"\n", "\n">>),
   version |-> title_element.byondver,
   tags |-> title_tags(title_element.html) \o event_tags(headers),
   metadata |-> parsed_metadata(headers)]

\* The Page that create_page_from_html inserts, for a document with a title.
page_of(document, all_pages) ==
  page_from(Head(select(document, TITLE_SELECTOR)),
            page_headers(document, all_pages),
            page_text(document,
                      proc_var_name(Head(select(document, TITLE_SELECTOR)).html),
                      all_pages))

(***************************************************************************)
(* State.  The run of main: pc is its position, cause why it aborted;      *)
(* parts are the parsed fragments of the input; blocked, fs_dirs and       *)
(* fs_files are the file system under the output directory; pending holds  *)
(* the keys the running HashMap iteration has not visited yet.  The other  *)
(* variables hold the argument and the result of one call of a pure        *)
(* function, for the specifications that check it on its own.              *)
(***************************************************************************)
VARIABLES pc, cause, parts, idx, path_to_doc, page_is_section, path_to_page,
          page_is_object, pending, blocked, fs_dirs, fs_files,
          esc_in, esc_out, slug_in, slug_once, slug_twice,
          res_link, res_pages, res_out, asm_doc, asm_text

mainVars == <<pc, cause, parts, idx, path_to_doc, page_is_section, path_to_page,
              page_is_object, pending, blocked, fs_dirs, fs_files>>
escVars == <<esc_in, esc_out>>
slugVars == <<slug_in, slug_once, slug_twice>>
resVars == <<res_link, res_pages, res_out>>
asmVars == <<asm_doc, asm_text>>
vars == <<mainVars, escVars, slugVars, resVars, asmVars>>

\* A result that has not been computed yet.
Unset == <<"!unset">>

EmptyMap == [k \in {} |-> <<>>]

MapInsert(m, key, val) ==
  [k \in DOMAIN m \cup {key} |-> IF k = key THEN val ELSE m[k]]

MainIdle ==
  /\ pc = "idle" /\ cause = "" /\ parts = <<>> /\ idx = 0
  /\ path_to_doc = EmptyMap /\ page_is_section = {} /\ path_to_page = EmptyMap
  /\ page_is_object = {} /\ pending = {} /\ blocked = {} /\ fs_dirs = {}
  /\ fs_files = EmptyMap
EscIdle == esc_in = <<>> /\ esc_out = Unset
SlugIdle == slug_in = <<>> /\ slug_once = Unset /\ slug_twice = Unset
ResIdle == res_link = Link(<<>>, <<>>) /\ res_pages = EmptyMap /\ res_out = Unset
AsmIdle == asm_doc = <<>> /\ asm_text = Unset

(***************************************************************************)
(* main                                                                    *)
(***************************************************************************)
\* --output, at its default "build".
OutputRoot == <<"b","u","i","l","d">>
W_md == <<".","m","d">>
W_root == <<"/">>

\* Lines 153-166: the synthetic root page; its fixed body is abridged to
\* its heading.
RootPage ==
  [title |-> <<"R","e","f","e","r","e","n","c","e">>,
   body |-> <<"#"," ","d","m","-","r","e","f","-","s","c","r","a","p","e","r">>,
   version |-> None, tags |-> <<>>, metadata |-> <<>>]

\* Page::to_frontmatter, as the table the TOML writer is given; a term that
\* comes twice keeps its last entries.
to_frontmatter(page, is_object) ==
  [title |-> Replace(page.title, <<"%","%">>, <<"\\","%","\\","%">>),
   byond_version |-> page.version,
   tags |-> page.tags \o (IF is_object THEN <<"object">> ELSE <<>>),
   headers |->
     [t \in { page.metadata[k][1] : k \in 1..Len(page.metadata) } |->
        page.metadata[Greatest({ k \in 1..Len(page.metadata) :
                                   page.metadata[k][1] = t })][2]]]

\* Lines 169-175: the path of a page's file, without ".md".
clean_path(path) ==
  LET path_str == make_ref_web_safe(path) IN
  IF path_str = Panicked THEN Panicked
  ELSE OutputRoot \o (IF path \in page_is_section THEN path_str \o W_index ELSE path_str)

\* The file system names a file by its components.
RECURSIVE Normalized(_)
Normalized(p) ==
  IF Contains(p, <<"/", "/">>) THEN Normalized(Replace(p, <<"/", "/">>, <<"/">>))
  ELSE TrimSlashes(p)

output_file(path) == Normalized(clean_path(path) \o W_md)

RECURSIVE DirChain(_)
DirChain(dir) ==
  IF path_parent(dir) = None THEN {Normalized(dir)}
  ELSE {Normalized(dir)} \cup DirChain(path_parent(dir))

\* The body and front matter written for a page (lines 184-191).
file_content(page) ==
  [frontmatter |-> to_frontmatter(page, page.title \in page_is_object),
   body |-> escape_dollars_outside_code(strip_orphan_tt(remove_html_encode(page.body)))]

\* fs::read_to_string fails (lines 112-115).
ReadFails ==
  /\ pc = "read"
  /\ pc' = "aborted" /\ cause' = "read"
  /\ UNCHANGED <<parts, idx, path_to_doc, page_is_section, path_to_page,
                 page_is_object, pending, blocked, fs_dirs, fs_files>>
  /\ UNCHANGED <<escVars, slugVars, resVars, asmVars>>

\* The input is read and split on "<hr>" (line 117).
ReadInput ==
  /\ pc = "read"
  /\ pc' = "pass1" /\ idx' = 1
  /\ UNCHANGED <<cause, parts, path_to_doc, page_is_section, path_to_page,
                 page_is_object, pending, blocked, fs_dirs, fs_files>>
  /\ UNCHANGED <<escVars, slugVars, resVars, asmVars>>

\* The loop of pass 1 left one fragment early.
last_fragment_one_short == idx >= Len(parts) - 1

\* The turn of the loop of pass 1 on the last fragment.
last_fragment == idx = Len(parts)

\* One turn of the loop of pass 1 (lines 122-138); after the last turn the
\* iteration over path_to_doc begins.
RegisterFragment ==
  /\ pc = "pass1"
  /\ LET document == parts[idx]
         page_element == select_first_a(document)
         registered == page_element # NoElement /\ page_element.name # None
         page_path == page_element.name
         docs == IF registered THEN MapInsert(path_to_doc, page_path, document)
                 ELSE path_to_doc
     IN /\ path_to_doc' = docs
        /\ page_is_section' =
             IF registered /\ path_parent(page_path) # None
             THEN page_is_section \cup {path_parent(page_path)}
             ELSE page_is_section
        /\ idx' = idx + 1
        /\ IF last_fragment
           THEN pc' = "pass2" /\ pending' = DOMAIN docs
           ELSE pc' = "pass1" /\ pending' = pending
  /\ UNCHANGED <<cause, parts, path_to_page, page_is_object, blocked, fs_dirs, fs_files>>
  /\ UNCHANGED <<escVars, slugVars, resVars, asmVars>>

\* Lines 204-403 for a document with a title: the operator of the title is
\* recorded before the headers and the text are rendered.
create_page_from_html(page_path, title_element, headers, text) ==
  /\ page_is_object' =
       IF proc_var_operator(title_element.html) # None
       THEN page_is_object \cup {proc_var_operator(title_element.html)}
       ELSE page_is_object
  /\ IF RenderingPanics(headers, text)
     THEN /\ pc' = "aborted" /\ cause' = "utf8"
          /\ UNCHANGED <<path_to_page, pending>>
     ELSE /\ path_to_page' =
               MapInsert(path_to_page, page_path, page_from(title_element, headers, text))
          /\ pending' = pending \ {page_path}
          /\ UNCHANGED <<pc, cause>>

\* One turn of the loop of pass 2 (lines 143-151): create_page_from_html on
\* a key the iteration has not visited, in any order.
CreatePage ==
  /\ pc = "pass2"
  /\ \E page_path \in pending :
       LET document == path_to_doc[page_path]
           titles == select(document, TITLE_SELECTOR)
       IN IF titles = <<>>
          THEN /\ pc' = "aborted" /\ cause' = "title"
               /\ UNCHANGED <<path_to_page, page_is_object, pending>>
          ELSE create_page_from_html(
                 page_path, Head(titles), page_headers(document, path_to_doc),
                 page_text(document, proc_var_name(Head(titles).html), path_to_doc))
  /\ UNCHANGED <<parts, idx, path_to_doc, page_is_section, blocked, fs_dirs, fs_files>>
  /\ UNCHANGED <<escVars, slugVars, resVars, asmVars>>

\* Lines 153-166, then the iteration over path_to_page begins.
InsertRoot ==
  /\ pc = "pass2" /\ pending = {}
  /\ path_to_page' = MapInsert(path_to_page, W_root, RootPage)
  /\ pending' = DOMAIN path_to_page'
  /\ pc' = "write"
  /\ UNCHANGED <<cause, parts, idx, path_to_doc, page_is_section, page_is_object,
                 blocked, fs_dirs, fs_files>>
  /\ UNCHANGED <<escVars, slugVars, resVars, asmVars>>

\* One turn of the write loop (lines 168-192), on a page not yet visited.
\* create_dir_all fails on a directory that is blocked and does not exist;
\* File::create fails when the directory of the file does not exist.
WritePage ==
  /\ pc = "write"
  /\ \E path \in pending :
       LET clean == clean_path(path)
           prefix == path_parent(clean)
           made == fs_dirs \cup DirChain(prefix)
           file == output_file(path)
       IN IF clean = Panicked
          THEN /\ pc' = "aborted" /\ cause' = "utf8"
               /\ UNCHANGED <<pending, fs_dirs, fs_files>>
          ELSE IF prefix = None
          THEN /\ pc' = "aborted" /\ cause' = "parent"
               /\ UNCHANGED <<pending, fs_dirs, fs_files>>
          ELSE IF (DirChain(prefix) \ fs_dirs) \cap blocked # {}
          THEN /\ pc' = "aborted" /\ cause' = "mkdir"
               /\ UNCHANGED <<pending, fs_dirs, fs_files>>
          ELSE /\ fs_dirs' = made
               /\ fs_files' =
                    IF path_parent(file) \in made
                    THEN MapInsert(fs_files, file, file_content(path_to_page[path]))
                    ELSE fs_files
               /\ pending' = pending \ {path}
               /\ pc' = IF pending' = {} THEN "done" ELSE "write"
               /\ UNCHANGED cause
  /\ UNCHANGED <<parts, idx, path_to_doc, page_is_section, path_to_page,
                 page_is_object, blocked>>
  /\ UNCHANGED <<escVars, slugVars, resVars, asmVars>>

(***************************************************************************)
(* Inputs of a run                                                         *)
(***************************************************************************)
A_name(n) == [Blank EXCEPT !.tag = "a", !.name = n]
A_href(h) == [Blank EXCEPT !.tag = "a", !.href = h]
H2(t) == [Blank EXCEPT !.tag = "h2", !.html = t]
DL(term, dds) == [Blank EXCEPT !.tag = "dl", !.dt = term, !.dds = dds]
P(inner) == [Blank EXCEPT !.tag = "p", !.inner = inner]
H3(inner) == [Blank EXCEPT !.tag = "h3", !.inner = inner]
XMP(html) == [Blank EXCEPT !.tag = "xmp", !.html = html]

P_a == <<"/","a">>
P_ab == <<"/","a","/","b">>
P_a_dot_b == <<"/","a",".","b">>
P_adotb == <<"/","a","d","o","t","b">>
P_x == <<"/","x">>
P_y == <<"/","y">>
H_a == <<"#","/","a">>
H_ab == <<"#","/","a","/","b">>
H_zz == <<"#","/","z","z">>

\* "/a": links forward to "/a/b".
F_a == << A_name(P_a), H2(<<"a">>), P(<<Text(<<"s","e","e"," ">>), Link(H_ab, <<"b">>)>>) >>
\* "/a/b": titled "vars (a)", with a See also list, a link to "/a", a link
\* to a page that does not exist.
F_ab ==
  << A_name(P_ab), H2(<<"v","a","r","s"," ","(","a",")">>),
     DL(W_See_also \o <<":">>, << <<Link(H_a, <<"a">>)>> >>),
     P(<<Link(H_zz, <<"z">>)>>), P(<<Text(<<"$","5">>)>>) >>
\* "/a.b": titled "procs (c)".
F_a_dot_b == << A_name(P_a_dot_b), H2(W_procs \o <<" ","(","c",")">>), XMP(<<"c","(",")">>) >>
\* "/adotb": titled "b proc".
F_adotb == << A_name(P_adotb), H2(<<"b">> \o W_sp_proc), XMP(<<"b","(",")"," ">>) >>
\* "/x": an anchor and no h2.
F_untitled == << A_name(P_x), P(<<Text(<<"x">>)>>) >>
\* an anchor with an href, then the anchor that names the page "/y".
F_href_first == << A_href(H_a), A_name(P_y), H2(<<"y">>) >>
\* the text between two "<hr>" that holds no element.
F_empty == <<>>

Fragments == {F_a, F_ab, F_a_dot_b, F_adotb, F_untitled, F_href_first, F_empty}

\* The most fragments an input holds.
MaxParts == 3

Inputs ==
  { s \in UNION { [1..n -> Fragments] : n \in 1..MaxParts } :
      \A i, j \in 1..Len(s) : s[i] = s[j] => i = j }

\* The directories of the output tree that cannot be created.
BlockedChoices == { {}, {OutputRoot}, {OutputRoot \o P_a} }

Init ==
  /\ pc = "read" /\ cause = ""
  /\ parts \in Inputs
  /\ blocked \in BlockedChoices
  /\ idx = 0
  /\ path_to_doc = EmptyMap /\ page_is_section = {} /\ path_to_page = EmptyMap
  /\ page_is_object = {} /\ pending = {}
  /\ fs_dirs = {<<>>} /\ fs_files = EmptyMap
  /\ EscIdle /\ SlugIdle /\ ResIdle /\ AsmIdle

Next ==
  \/ ReadFails
  \/ ReadInput
  \/ RegisterFragment
  \/ CreatePage
  \/ InsertRoot
  \/ WritePage

Spec == Init /\ [][Next]_vars

(***************************************************************************)
(* escape_dollars_outside_code on its own                                  *)
(***************************************************************************)
\* The longest text the escaper is given.
MaxEscLen == 7

RECURSIVE StringsUpTo(_, _)
StringsUpTo(alphabet, n) ==
  IF n = 0 THEN {<<>>}
  ELSE LET shorter == StringsUpTo(alphabet, n - 1) IN
       shorter \cup { Append(s, c) : s \in { t \in shorter : Len(t) = n - 1 },
                                     c \in alphabet }

\* "price is $5 and `code $5`"
PriceExample ==
  <<"p","r","i","c","e"," ","i","s"," ","$","5"," ","a","n","d"," ",
    Backtick,"c","o","d","e"," ","$","5",Backtick>>

EscInputs == StringsUpTo({Backtick, "$", "a"}, MaxEscLen) \cup {PriceExample}

InitEscape ==
  /\ esc_in \in EscInputs /\ esc_out = Unset
  /\ MainIdle /\ SlugIdle /\ ResIdle /\ AsmIdle

Escape ==
  /\ esc_out = Unset
  /\ esc_out' = escape_dollars_outside_code(esc_in)
  /\ UNCHANGED <<esc_in, mainVars, slugVars, resVars, asmVars>>

SpecEscape == InitEscape /\ [][Escape]_vars

(***************************************************************************)
(* make_ref_web_safe on its own, applied once and then to its own result   *)
(***************************************************************************)
\* The most pieces a path is made of.
MaxPieces == 3

SlugPieces ==
  { <<"/">>, <<"i","n","d","e","x">>, <<"o","p","e","r","a">>, <<"t","o","r">>,
    <<"-">>, <<"{">>, <<".">>, W_dot, <<"%","2","E">>, <<"%","f","f">> }

RECURSIVE PieceStrings(_, _)
PieceStrings(pieces, n) ==
  IF n = 0 THEN {<<>>}
  ELSE LET shorter == PieceStrings(pieces, n - 1) IN
       shorter \cup { s \o p : s \in shorter, p \in pieces }

InitSlug ==
  /\ slug_in \in PieceStrings(SlugPieces, MaxPieces)
  /\ slug_once = Unset /\ slug_twice = Unset
  /\ MainIdle /\ EscIdle /\ ResIdle /\ AsmIdle

Sanitize ==
  /\ slug_once = Unset
  /\ slug_once' = make_ref_web_safe(slug_in)
  /\ UNCHANGED <<slug_in, slug_twice, mainVars, escVars, resVars, asmVars>>

SanitizeAgain ==
  /\ slug_once \notin {Unset, Panicked} /\ slug_twice = Unset
  /\ slug_twice' = make_ref_web_safe(slug_once)
  /\ UNCHANGED <<slug_in, slug_once, mainVars, escVars, resVars, asmVars>>

NextSlug == Sanitize \/ SanitizeAgain

SpecSlug == InitSlug /\ [][NextSlug]_vars

(***************************************************************************)
(* The link rewriting of parse_html_to_markdown on one anchor              *)
(***************************************************************************)
\* The most pieces an href is made of.
MaxHrefPieces == 3

HrefPieces == { <<"#">>, P_a, <<"/","b">>, W_http, <<".">>, <<"%","f","f">> }

RegistryChoices == SUBSET {P_a, P_ab, <<"/","b">>}

InitResolve ==
  /\ \E h \in PieceStrings(HrefPieces, MaxHrefPieces) : res_link = Link(h, <<"t">>)
  /\ \E keys \in RegistryChoices : res_pages = [k \in keys |-> <<>>]
  /\ res_out = Unset
  /\ MainIdle /\ EscIdle /\ SlugIdle /\ AsmIdle

Resolve ==
  /\ res_out = Unset
  /\ res_out' = rewrite_links(<<res_link>>, res_pages)
  /\ UNCHANGED <<res_link, res_pages, mainVars, escVars, slugVars, asmVars>>

SpecResolve == InitResolve /\ [][Resolve]_vars

(***************************************************************************)
(* The assembly of a page's text vector                                    *)
(***************************************************************************)
\* The most elements a document holds.
MaxNodes == 3

N_see == DL(W_See_also \o <<":">>, << <<Link(H_a, <<"a">>)>> >>)
N_args == DL(W_Args, << <<Text(<<"n",":"," ","x">>)>>, <<Text(<<"m">>)>> >>)
N_var == DL(P_a \o W_slash_var, << <<Text(<<"v">>)>> >>)
N_format == DL(W_Format \o <<":">>, << <<Text(<<"f","(",")">>)>> >>)
N_p == P(<<Text(<<"t">>)>>)
N_note == P(<<Text(W_Note \o <<" ","n">>)>>)
N_example == H3(<<Text(W_Example)>>)
N_h3 == H3(<<Text(<<"h">>)>>)
N_xmp == XMP(<<"x","(",")">>)

NodeChoices == {N_see, N_args, N_var, N_format, N_p, N_note, N_example, N_h3, N_xmp}

AsmPages == [k \in {P_a} |-> <<>>]

InitAssemble ==
  /\ asm_doc \in UNION { [1..n -> NodeChoices] : n \in 0..MaxNodes }
  /\ asm_text = Unset
  /\ MainIdle /\ EscIdle /\ SlugIdle /\ ResIdle

Assemble ==
  /\ asm_text = Unset
  /\ asm_text' = page_text(asm_doc, None, AsmPages)
  /\ UNCHANGED <<asm_doc, mainVars, escVars, slugVars, resVars>>

SpecAssemble == InitAssemble /\ [][Assemble]_vars

(***************************************************************************)
(* Claims                                                                  *)
(***************************************************************************)
Rendering == pc \in {"pass2", "write", "done"}

\* The name pass 1 registers a fragment under, None when it drops it.
RegisteredName(document) ==
  IF select_first_a(document) = NoElement THEN None
  ELSE select_first_a(document).name

RegistryKeys == { RegisteredName(parts[k]) : k \in 1..Len(parts) } \ {None}

CompleteRegistry ==
  [p \in RegistryKeys |->
     parts[Greatest({ k \in 1..Len(parts) : RegisteredName(parts[k]) = p })]]

\* C1: no page is rendered before pass 1 has registered every fragment, the
\* registry stays what pass 1 made of the whole input while pages are
\* rendered and written, and every rendered page is what rendering it
\* against that complete registry gives, whatever the order of the
\* fragments and of the rendering.
C1_RegistryCompleteBeforeRender ==
  /\ (Rendering \/ DOMAIN path_to_page # {}) => path_to_doc = CompleteRegistry
  /\ \A p \in DOMAIN path_to_page :
       (p # W_root \/ pc = "pass2") =>
         path_to_page[p] = page_of(CompleteRegistry[p], CompleteRegistry)

\* C1 witness: "/a" stands before "/a/b" in the input and its link to
\* "/a/b" is rendered as link markup.
C1_ForwardReferenceResolved ==
  /\ \E i, j \in 1..Len(parts) : i < j /\ parts[i] = F_a /\ parts[j] = F_ab
  /\ P_a \in DOMAIN path_to_page
  /\ Contains(path_to_page[P_a].body, <<"[","b","]","(">> \o P_ab \o <<")">>)

\* C2: the run does not abort because a registered fragment has no h2.
C2_MissingTitleSkipsPage == pc = "aborted" => cause # "title"

\* C3: a run that aborted because the input could not be read or a
\* directory could not be created has written no file.
C3_NoOutputOnRunFailure ==
  (pc = "aborted" /\ cause \in {"read", "mkdir"}) => DOMAIN fs_files = {}

\* Every '#' removed.
WithoutHashes(href) == SelectSeq(href, LAMBDA c : c # "#")

\* The href up to its first '#'.
BeforeHash(href) ==
  IF Contains(href, <<"#">>) THEN SubSeq(href, 1, Find(href, <<"#">>)) ELSE href

LinkMarkup(text, target) ==
  <<"[">> \o text \o <<"]","(">> \o make_ref_web_safe(target) \o <<")">>

BrokenMarkup(target) == W_broken \o make_ref_web_safe(target) \o <<"*","*">>

IsRunStart(s, k) == s[k] = Backtick /\ (k = 1 \/ s[k - 1] # Backtick)

RunLength(s, k) == LeadingBackticks(DropFirst(s, k - 1))

RunStartsFrom(s, k) == { r \in k..Len(s) : IsRunStart(s, r) }

\* The positions covered by code spans that open at or after position k.
RECURSIVE SpanPositions(_, _)
SpanPositions(s, k) ==
  IF RunStartsFrom(s, k) = {} THEN {}
  ELSE
    LET open == Least(RunStartsFrom(s, k))
        n == RunLength(s, open)
        closers == { c \in RunStartsFrom(s, open + n) : RunLength(s, c) = n }
    IN IF closers = {} THEN SpanPositions(s, open + n)
       ELSE (open..(Least(closers) + n - 1))
              \cup SpanPositions(s, Least(closers) + n)

EscapedOutsideSpans(s) ==
  Concat([k \in 1..Len(s) |->
            IF s[k] = "$" /\ k \notin SpanPositions(s, 1)
            THEN <<"\\", "$">> ELSE <<s[k]>>])
\* C5: the escaper puts a backslash before exactly the '$' outside every
\* code span and copies every other character in order.
C5_EscapesOutsideSpans ==
  esc_out # Unset => esc_out = EscapedOutsideSpans(esc_in)

\* C5 witness: the example of the specification.
C5_PriceExampleEscaped ==
  /\ esc_in = PriceExample
  /\ esc_out = SubSeq(PriceExample, 1, 9) \o <<"\\">> \o DropFirst(PriceExample, 9)

Reserved ==
  {".", "<", ">", "%", "?", "&", "~", "|", "!", ":", "*", "^", "=", "+",
   "(", ")", "[", "]"}

FreeOf(s, chars) == \A k \in 1..Len(s) : s[k] \notin chars

C7_DistinctPagesDistinctFiles ==
  pc \in {"write", "done"} =>
    \A p, q \in DOMAIN path_to_page :
      p # q => /\ make_ref_web_safe(p) # make_ref_web_safe(q)
               /\ output_file(p) # output_file(q)

NamedAnchors(document) ==
  SelectSeq(document, LAMBDA n : n.tag = "a" /\ n.name # None)

\* C8: after pass 1 every fragment that holds an anchor with a name is
\* registered under the name of the first such anchor.
C8_FirstNamedAnchorRegisters ==
  Rendering =>
    \A k \in 1..Len(parts) :
      NamedAnchors(parts[k]) # <<>> =>
        Head(NamedAnchors(parts[k])).name \in DOMAIN path_to_doc

W_procs_paren == W_procs \o <<" ","(">>

\* The X of a title "procs (X)" or "vars (X)", None for another title.
MarkedObject(title) ==
  IF StartsWith(title, W_procs_paren) /\ EndsWith(title, <<")">>)
  THEN SubSeq(title, Len(W_procs_paren) + 1, Len(title) - 1)
  ELSE IF StartsWith(title, W_vars_paren) /\ EndsWith(title, <<")">>)
  THEN SubSeq(title, Len(W_vars_paren) + 1, Len(title) - 1)
  ELSE None

\* C9: once front matter is emitted, the X of every page titled
\* "procs (X)" or "vars (X)" is in page_is_object.
C9_MarkedObjectsRecorded ==
  pc \in {"write", "done"} =>
    \A p \in DOMAIN path_to_page :
      MarkedObject(path_to_page[p].title) # None =>
        MarkedObject(path_to_page[p].title) \in page_is_object

Deferred(part) ==
  \/ part.term = W_See_also
  \/ Contains(part.term, W_slash_var)
  \/ Contains(part.term, W_slash_proc)

NotDeferred(part) == ~Deferred(part)

\* C10: the text vector of a page is its non-deferred headers in source
\* order, then its body blocks in source order, then its deferred headers
\* (term "See also", or holding "/var" or "/proc") in source order.
C10_DeferredHeadersAfterBody ==
  asm_text # Unset =>
    LET headers == page_headers(asm_doc, AsmPages)
        front == SelectSeq(headers, NotDeferred)
        back == SelectSeq(headers, Deferred)
        body == text_blocks(asm_doc, None, AsmPages)
    IN /\ Len(asm_text) = Len(front) + Len(body) + Len(back)
       /\ \A k \in 1..Len(front) : asm_text[k] = header_block(front[k])
       /\ \A k \in 1..Len(body) : asm_text[Len(front) + k] = body[k]
       /\ \A k \in 1..Len(back) :
            asm_text[Len(front) + Len(body) + k] = header_block(back[k])

\* C10 witness: a See also list that stands first in the source, before a
\* paragraph and an Args list, is the last block of the text.
C10_SeeAlsoMovedToEnd ==
  /\ asm_doc = <<N_see, N_p, N_args>>
  /\ asm_text # Unset
  /\ Len(asm_text) = 3
  /\ StartsWith(asm_text[1], W_h3 \o W_Args)
  /\ asm_text[2] = <<"t">>
  /\ StartsWith(asm_text[3], W_h3 \o W_See_also)

====
